---- MODULE Spec2Model ----
(***************************************************************************)
(* cohere_melody_vllm/parser.py: the vLLM reasoning parser and tool parser *)
(* built on the melody filter.                                             *)
(*                                                                         *)
(* A text (a Python str) is a sequence of code points.  A token is the     *)
(* sequence of byte units it stands for; a control marker such as          *)
(* <|START_THINKING|> is one special token, modelled as one unit below 128 *)
(* that decodes to one code point standing for the marker's literal text.  *)
(***************************************************************************)
EXTENDS Integers, Sequences, FiniteSets, TLC

VARIABLES parser, model_output, tokens, melody, pos, streamed, call,
          tool_calls, created, applied, status, result,
          burst, delta,
          heap, streams

vars == <<parser, model_output, tokens, melody, pos, streamed, call,
          tool_calls, created, applied, status, result, burst, delta,
          heap, streams>>

parserVars == <<parser, model_output, tokens, melody, pos, streamed, call>>
tableVars  == <<tool_calls, created, applied, status, result>>
aggVars    == <<burst, delta>>
isoVars    == <<heap, streams>>

(***************************************************************************)
(* Bounds of the model.                                                    *)
(***************************************************************************)
MaxTokens == 3      \* tokens in one model output
MaxFrags  == 3      \* tool-call deltas fed to one tool-call list
MaxIndex  == 1      \* largest tool-call index the oracle is let to emit
MaxBurst  == 2      \* events in one write_decoded result handed to the aggregator

(***************************************************************************)
(* Program constants.                                                      *)
(***************************************************************************)
REPLACEMENT_CHAR == 65533

START_THINKING == 1
END_THINKING   == 2
START_RESPONSE == 3
START_ACTION   == 4
END_ACTION     == 5

(***************************************************************************)
(* Python values.                                                          *)
(***************************************************************************)
None    == [some |-> FALSE, v |-> <<>>]
Some(s) == [some |-> TRUE, v |-> s]

RECURSIVE Concat(_)
Concat(ss) == IF ss = <<>> THEN <<>> ELSE Head(ss) \o Concat(Tail(ss))

Range(s) == {s[i] : i \in DOMAIN s}

\* str.endswith(c) for a one-character c
endswith(s, c) == Len(s) > 0 /\ s[Len(s)] = c

(***************************************************************************)
(* The tokenizer (vLLM's AnyTokenizer, a byte-level vocabulary): encode    *)
(* cuts the UTF-8 bytes of the text into tokens, decode joins the bytes of *)
(* the tokens and decodes them as UTF-8 with errors replaced by U+FFFD.    *)
(***************************************************************************)
utf8(c) ==
    IF c < 128 THEN <<c>>
    ELSE IF c < 2048 THEN <<192 + (c \div 64), 128 + (c % 64)>>
    ELSE <<224 + (c \div 4096), 128 + ((c \div 64) % 64), 128 + (c % 64)>>

RECURSIVE utf8_bytes(_)
utf8_bytes(text) ==
    IF text = <<>> THEN <<>> ELSE utf8(Head(text)) \o utf8_bytes(Tail(text))

IsCont(b)  == b >= 128 /\ b <= 191
IsLead2(b) == b >= 194 /\ b <= 223
IsLead3(b) == b >= 224 /\ b <= 239

\* bytes.decode("utf-8", errors="replace"): every maximal ill-formed or
\* truncated subsequence becomes one U+FFFD.
RECURSIVE utf8_decode(_, _)
utf8_decode(b, i) ==
    IF i > Len(b) THEN <<>>
    ELSE IF b[i] < 128 THEN <<b[i]>> \o utf8_decode(b, i + 1)
    ELSE IF IsLead2(b[i]) THEN
        IF i + 1 <= Len(b) /\ IsCont(b[i + 1])
        THEN <<(b[i] - 192) * 64 + (b[i + 1] - 128)>> \o utf8_decode(b, i + 2)
        ELSE <<REPLACEMENT_CHAR>> \o utf8_decode(b, i + 1)
    ELSE IF IsLead3(b[i]) THEN
        IF i + 1 <= Len(b) /\ IsCont(b[i + 1])
        THEN IF i + 2 <= Len(b) /\ IsCont(b[i + 2])
             THEN <<(b[i] - 224) * 4096 + (b[i + 1] - 128) * 64 + (b[i + 2] - 128)>>
                      \o utf8_decode(b, i + 3)
             ELSE <<REPLACEMENT_CHAR>> \o utf8_decode(b, i + 2)
        ELSE <<REPLACEMENT_CHAR>> \o utf8_decode(b, i + 1)
    ELSE <<REPLACEMENT_CHAR>> \o utf8_decode(b, i + 1)

\* self.model_tokenizer.decode(token_buf, skip_special_tokens=False)
decode(token_buf) == utf8_decode(Concat(token_buf), 1)

\* self.model_tokenizer.encode(model_output, add_special_tokens=False) returns
\* some cut of the text's bytes into tokens of the vocabulary: toks is such a cut.
is_encoding(toks, text) == Concat(toks) = utf8_bytes(text)

(***************************************************************************)
(* The melody filter (cohere_melody.PyFilter, compiled bindings): a        *)
(* stateful classifier.  Its state is the set of markers it recognises and *)
(* the region it is in; write_decoded(text) returns the ordered outputs    *)
(* for text and moves the region.  One output carries a text run of one    *)
(* channel or one tool-call delta.                                         *)
(***************************************************************************)
NoDelta == [present |-> FALSE, id |-> "", index |-> 0, name |-> "",
            raw_param_delta |-> <<>>]
ToolCallDelta(id, index, name, raw) ==
    [present |-> TRUE, id |-> id, index |-> index, name |-> name,
     raw_param_delta |-> raw]

TextOutput(text, is_reasoning) ==
    [text |-> Some(text), is_reasoning |-> is_reasoning, tool_call_delta |-> NoDelta]
DeltaOutput(d) ==
    [text |-> None, is_reasoning |-> FALSE, tool_call_delta |-> d]

\* PyFilterOptions().cmd3()
cmd3 == [special |-> {START_THINKING, END_THINKING, START_RESPONSE,
                      START_ACTION, END_ACTION}]
\* PyFilterOptions.remove_token(t)
remove_token(options, t) == [options EXCEPT !.special = @ \ {t}]
\* PyFilter(options): a new filter, in the content region
PyFilter(options) == [special |-> options.special, mode |-> "content"]

\* The region a recognised marker opens.
region_after(marker) ==
    IF marker = START_THINKING THEN "reasoning"
    ELSE IF marker = START_ACTION THEN "action"
    ELSE "content"

\* The action grammar, abstracted: inside an action region each of these
\* characters is one tool-call delta ('1' opens call 0, '2' and '3' extend
\* it, '4' opens call 1, '5' extends it); any other text there yields nothing.
ActionChars == {49, 50, 51, 52, 53}
action_delta(c) ==
    IF c = 49 THEN ToolCallDelta("c1", 0, "", <<>>)
    ELSE IF c = 50 THEN ToolCallDelta("", 0, "f", <<>>)
    ELSE IF c = 51 THEN ToolCallDelta("", 0, "", <<120>>)
    ELSE IF c = 52 THEN ToolCallDelta("c2", 1, "g", <<>>)
    ELSE ToolCallDelta("", 1, "", <<121>>)

\* The text run collected so far is closed into one output.
flush_run(f, run, out) ==
    IF run = <<>> THEN out ELSE Append(out, TextOutput(run, f.mode = "reasoning"))

RECURSIVE scan(_, _, _, _, _)
scan(f, text, i, run, out) ==
    IF i > Len(text) THEN [filter |-> f, out |-> flush_run(f, run, out)]
    ELSE IF text[i] \in f.special
         THEN scan([f EXCEPT !.mode = region_after(text[i])], text, i + 1,
                   <<>>, flush_run(f, run, out))
    ELSE IF f.mode = "action"
         THEN scan(f, text, i + 1, <<>>,
                   IF text[i] \in ActionChars
                   THEN Append(out, DeltaOutput(action_delta(text[i])))
                   ELSE out)
    ELSE scan(f, text, i + 1, Append(run, text[i]), out)

\* (a filter that starts every call in the content region)
write_decoded_fresh(f, text) ==
    scan([f EXCEPT !.mode = "content"], text, 1, <<>>, <<>>)

\* PyFilter.write_decoded(text) -> [filter: the filter afterwards, out: the outputs]
write_decoded(f, text) == scan(f, text, 1, <<>>, <<>>)

(***************************************************************************)
(* CohereCommand2ReasoningParser.extract_reasoning_streaming, lines 50-86: *)
(* the outputs of one write_decoded call folded into one DeltaMessage.     *)
(***************************************************************************)
\* (`x = text` in place of `x += text`: the last text wins)
opt_assign(x, text) == Some(text)

\* `x = "" if x is None else x; x += text`
opt_append(x, text) == Some((IF x.some THEN x.v ELSE <<>>) \o text)

DeltaToolCall(d) ==
    [id |-> d.id, index |-> d.index, type |-> "function",
     function |-> [name |-> d.name, arguments |-> d.raw_param_delta]]

\* lines 54-73, the body of `for o in out`
stream_step(acc, o) ==
    LET a == IF ~o.text.some THEN acc
             ELSE IF o.is_reasoning
                  THEN [acc EXCEPT !.reasoning_content = opt_append(@, o.text.v)]
                  ELSE [acc EXCEPT !.content = opt_append(@, o.text.v)]
    IN  IF o.tool_call_delta.present
        THEN [a EXCEPT !.tool_calls = Append(@, DeltaToolCall(o.tool_call_delta))]
        ELSE a

RECURSIVE stream_fold(_, _)
stream_fold(acc, out) ==
    IF out = <<>> THEN acc ELSE stream_fold(stream_step(acc, Head(out)), Tail(out))

\* what a streaming call returns: None, or a DeltaMessage
NoMessage == [kind |-> "None", content |-> None, reasoning_content |-> None,
              tool_calls |-> <<>>]
DeltaMessage(content, reasoning_content, delta_tool_calls) ==
    [kind |-> "DeltaMessage", content |-> content,
     reasoning_content |-> reasoning_content, tool_calls |-> delta_tool_calls]

\* (line 75 with the tool-call deltas forgotten)
nothing_touched_text_only(acc) ==
    ~acc.content.some /\ ~acc.reasoning_content.some

\* line 75
nothing_touched(acc) ==
    ~acc.content.some /\ ~acc.reasoning_content.some /\ Len(acc.tool_calls) = 0

\* lines 50-86
aggregate(out) ==
    LET acc == stream_fold([content |-> None, reasoning_content |-> None,
                            tool_calls |-> <<>>], out)
    IN  IF nothing_touched(acc) THEN NoMessage
        ELSE DeltaMessage(acc.content, acc.reasoning_content, acc.tool_calls)

(***************************************************************************)
(* CohereCommand2ToolParser.extract_tool_calls_streaming, lines 185-200.   *)
(***************************************************************************)
RECURSIVE tool_deltas(_)
tool_deltas(out) ==
    IF out = <<>> THEN <<>>
    ELSE (IF Head(out).tool_call_delta.present
          THEN <<DeltaToolCall(Head(out).tool_call_delta)>> ELSE <<>>)
         \o tool_deltas(Tail(out))

aggregate_tool_calls(out) ==
    IF Len(tool_deltas(out)) > 0
    THEN DeltaMessage(None, None, tool_deltas(out))
    ELSE NoMessage

(***************************************************************************)
(* The boundary test of both extraction loops, lines 110 and 217.          *)
(***************************************************************************)
\* (the loop with the test left out: every decoded text is handed on)
incomplete_unchecked(token_str) == FALSE

\* (the test made on the first character of the decoded text)
incomplete_at_start(token_str) ==
    Len(token_str) > 0 /\ token_str[1] = REPLACEMENT_CHAR

incomplete(token_str) == endswith(token_str, REPLACEMENT_CHAR)

(***************************************************************************)
(* CohereCommand2ReasoningParser.extract_reasoning, lines 91-126.          *)
(* written is the log of the texts handed to write_decoded, runs the log   *)
(* of the token_buf each of them was decoded from.                         *)
(***************************************************************************)
\* (every text appended to content, as lines 222-224 of extract_tool_calls do)
text_step_unflagged(acc, o) ==
    IF ~o.text.some THEN acc
    ELSE [acc EXCEPT !.content = opt_append(@, o.text.v)]

\* lines 115-123, the body of `for o in out`
text_step(acc, o) ==
    IF ~o.text.some THEN acc
    ELSE IF o.is_reasoning
         THEN [acc EXCEPT !.reasoning_content = opt_append(@, o.text.v)]
         ELSE [acc EXCEPT !.content = opt_append(@, o.text.v)]

RECURSIVE text_fold(_, _)
text_fold(acc, out) ==
    IF out = <<>> THEN acc ELSE text_fold(text_step(acc, Head(out)), Tail(out))

\* lines 104-125, from token i on
RECURSIVE extract_reasoning_loop(_, _, _)
extract_reasoning_loop(toks, i, s) ==
    IF i > Len(toks) THEN s
    ELSE LET token_buf == Append(s.token_buf, toks[i])
             token_str == decode(token_buf)
         IN  IF incomplete(token_str)
             THEN extract_reasoning_loop(toks, i + 1, [s EXCEPT !.token_buf = token_buf])
             ELSE LET w == write_decoded(s.melody, token_str)
                      acc == text_fold([reasoning_content |-> s.reasoning_content,
                                        content |-> s.content], w.out)
                  IN  extract_reasoning_loop(toks, i + 1,
                          [melody |-> w.filter, token_buf |-> <<>>,
                           reasoning_content |-> acc.reasoning_content,
                           content |-> acc.content,
                           written |-> Append(s.written, token_str),
                           runs |-> Append(s.runs, token_buf)])

\* lines 95-100
sanitized_filter ==
    PyFilter(remove_token(remove_token(cmd3, START_ACTION), END_ACTION))

extract_reasoning(toks) ==
    extract_reasoning_loop(toks, 1,
        [melody |-> sanitized_filter, token_buf |-> <<>>,
         reasoning_content |-> None, content |-> None, written |-> <<>>,
                  runs |-> <<>>])

\* (the loop run on the parser's own filter, as extract_tool_calls does)
extract_reasoning_on_self(self_melody, toks) ==
    LET s == extract_reasoning_loop(toks, 1,
                 [melody |-> self_melody, token_buf |-> <<>>,
                  reasoning_content |-> None, content |-> None, written |-> <<>>,
                  runs |-> <<>>])
    IN  [self_melody |-> s.melody, s |-> s]

\* the method on its object: the loop runs on the local `melody` of line 95,
\* and self.melody is neither read nor written
extract_reasoning_call(self_melody, toks) ==
    [self_melody |-> self_melody, s |-> extract_reasoning(toks)]

(***************************************************************************)
(* CohereCommand2ToolParser.extract_tool_calls, lines 207-248.             *)
(***************************************************************************)
\* lines 228-232
ToolCall(id) ==
    [id |-> id, type |-> "function",
     function |-> [name |-> "", arguments |-> <<>>]]

\* tool_calls[index] of a Python list, for index >= 0: position index + 1 here
in_range(tcs, index) == index + 1 \in DOMAIN tcs

\* lines 226-240: one tool-call delta applied to the list.  An index out of
\* range raises IndexError at the first tool_calls[index], after the append.
apply_delta(tcs, d) ==
    LET t1 == IF d.id # "" THEN Append(tcs, ToolCall(d.id)) ELSE tcs
    IN  IF ~in_range(t1, d.index) THEN [raised |-> TRUE, tool_calls |-> t1]
        ELSE LET t2 == IF d.name # ""
                       THEN [t1 EXCEPT ![d.index + 1].function.name = d.name]
                       ELSE t1
             IN  [raised |-> FALSE,
                  tool_calls |-> [t2 EXCEPT ![d.index + 1].function.arguments =
                                                @ \o d.raw_param_delta]]

\* lines 221-240, `for o in out`; an exception ends the loop
RECURSIVE apply_outputs(_, _)
apply_outputs(s, out) ==
    IF out = <<>> \/ s.raised THEN s
    ELSE LET o == Head(out)
             c == IF o.text.some THEN opt_append(s.content, o.text.v) ELSE s.content
         IN  IF o.tool_call_delta.present
             THEN LET r == apply_delta(s.tool_calls, o.tool_call_delta)
                  IN  apply_outputs([content |-> c, tool_calls |-> r.tool_calls,
                                     raised |-> r.raised], Tail(out))
             ELSE apply_outputs([s EXCEPT !.content = c], Tail(out))

\* lines 211-242, from token i on
RECURSIVE extract_tool_calls_loop(_, _, _)
extract_tool_calls_loop(toks, i, s) ==
    IF i > Len(toks) \/ s.raised THEN s
    ELSE LET token_buf == Append(s.token_buf, toks[i])
             token_str == decode(token_buf)
         IN  IF incomplete(token_str)
             THEN extract_tool_calls_loop(toks, i + 1, [s EXCEPT !.token_buf = token_buf])
             ELSE LET w == write_decoded(s.melody, token_str)
                      r == apply_outputs([content |-> s.content,
                                          tool_calls |-> s.tool_calls,
                                          raised |-> FALSE], w.out)
                  IN  extract_tool_calls_loop(toks, i + 1,
                          [melody |-> w.filter, token_buf |-> <<>>,
                           content |-> r.content, tool_calls |-> r.tool_calls,
                           raised |-> r.raised,
                           written |-> Append(s.written, token_str),
                           runs |-> Append(s.runs, token_buf)])

\* the whole call on the parser's own filter (self.melody, line 220)
extract_tool_calls(self_melody, toks) ==
    extract_tool_calls_loop(toks, 1,
        [melody |-> self_melody, token_buf |-> <<>>, content |-> None,
         tool_calls |-> <<>>, raised |-> FALSE, written |-> <<>>, runs |-> <<>>])

\* lines 244-248
ExtractedToolCallInformation(tcs, content) ==
    [kind |-> "ExtractedToolCallInformation", tools_called |-> Len(tcs) > 0,
     tool_calls |-> tcs, content |-> content]

(***************************************************************************)
(* Spec: one parser object serving one model output.  Init is the state    *)
(* after the constructor (lines 34-36 or 163-165); tokens is what the      *)
(* tokenizer's encode returns for model_output; pos is how much of the     *)
(* output the streaming calls have been given so far, and streamed is the  *)
(* caller's concatenation of the fields those calls returned.              *)
(***************************************************************************)
\* The tokens the model is let to emit: the markers, 'a', two action
\* characters, U+00E9 whole and cut, U+FFFD whole and cut, 'a' with a lead byte.
Vocab ==
    { <<START_THINKING>>, <<END_THINKING>>, <<START_RESPONSE>>,
      <<START_ACTION>>, <<END_ACTION>>,
      <<97>>, <<49>>, <<51>>,
      <<195, 169>>, <<195>>, <<169>>, <<97, 195>>,
      <<239, 191, 189>>, <<239>>, <<191, 189>> }

TokenSeqs == UNION {[1..n -> Vocab] : n \in 0..MaxTokens}

\* token sequences that are the encoding of a text
Encodings == {toks \in TokenSeqs : is_encoding(toks, decode(toks))}

NoCall == [op |-> "none", written |-> <<>>, runs |-> <<>>, token_buf |-> <<>>, out |-> <<>>,
           ret |-> NoMessage]

TableIdle ==
    /\ tool_calls = <<>> /\ created = <<>> /\ applied = <<>>
    /\ status = "idle" /\ result = NoMessage
AggIdle == burst = <<>> /\ delta = [op |-> "idle", ret |-> NoMessage]
IsoIdle == heap = <<>> /\ streams = <<>>

Init ==
    /\ parser \in {"reasoning", "tool"}
    /\ tokens \in Encodings
    /\ model_output = decode(tokens)
    /\ melody = PyFilter(cmd3)
    /\ pos = 0
    /\ streamed = [content |-> None, reasoning_content |-> None, tool_calls |-> <<>>]
    /\ call = NoCall
    /\ TableIdle /\ AggIdle /\ IsoIdle

\* the caller appends the fields of a returned delta to what it has
stream_append(acc, msg) ==
    [content |-> IF msg.content.some
                 THEN opt_append(acc.content, msg.content.v) ELSE acc.content,
     reasoning_content |-> IF msg.reasoning_content.some
                 THEN opt_append(acc.reasoning_content, msg.reasoning_content.v)
                 ELSE acc.reasoning_content,
     tool_calls |-> acc.tool_calls \o msg.tool_calls]

\* extract_reasoning_streaming(delta_text), lines 38-86
ExtractReasoningStreaming ==
    /\ parser = "reasoning"
    /\ \E k \in 0..(Len(model_output) - pos) :
         LET delta_text == SubSeq(model_output, pos + 1, pos + k)
             w == write_decoded(melody, delta_text)
             msg == aggregate(w.out)
         IN  /\ melody' = w.filter
             /\ pos' = pos + k
             /\ streamed' = stream_append(streamed, msg)
             /\ call' = [op |-> "extract_reasoning_streaming",
                         written |-> <<delta_text>>, runs |-> <<>>, token_buf |-> <<>>,
                         out |-> w.out, ret |-> msg]
    /\ UNCHANGED <<parser, model_output, tokens, tableVars, aggVars, isoVars>>

\* extract_reasoning(model_output), lines 88-126
ExtractReasoning ==
    /\ parser = "reasoning"
    /\ LET r == extract_reasoning_call(melody, tokens)
           s == r.s
       IN  /\ melody' = r.self_melody
           /\ call' = [op |-> "extract_reasoning", written |-> s.written,
                       runs |-> s.runs, token_buf |-> s.token_buf, out |-> <<>>,
                       ret |-> [kind |-> "tuple",
                                reasoning_content |-> s.reasoning_content,
                                content |-> s.content]]
    /\ UNCHANGED <<parser, model_output, tokens, pos, streamed,
                   tableVars, aggVars, isoVars>>

\* extract_tool_calls_streaming(delta_text), lines 172-200
ExtractToolCallsStreaming ==
    /\ parser = "tool"
    /\ \E k \in 0..(Len(model_output) - pos) :
         LET delta_text == SubSeq(model_output, pos + 1, pos + k)
             w == write_decoded(melody, delta_text)
             msg == aggregate_tool_calls(w.out)
         IN  /\ melody' = w.filter
             /\ pos' = pos + k
             /\ streamed' = stream_append(streamed, msg)
             /\ call' = [op |-> "extract_tool_calls_streaming",
                         written |-> <<delta_text>>, runs |-> <<>>, token_buf |-> <<>>,
                         out |-> w.out, ret |-> msg]
    /\ UNCHANGED <<parser, model_output, tokens, tableVars, aggVars, isoVars>>

\* extract_tool_calls(model_output), lines 202-248
ExtractToolCalls ==
    /\ parser = "tool"
    /\ LET s == extract_tool_calls(melody, tokens)
       IN  /\ melody' = s.melody
           /\ call' = [op |-> "extract_tool_calls", written |-> s.written,
                       runs |-> s.runs, token_buf |-> s.token_buf, out |-> <<>>,
                       ret |-> IF s.raised
                               THEN [kind |-> "IndexError", tool_calls |-> s.tool_calls]
                               ELSE ExtractedToolCallInformation(s.tool_calls, s.content)]
    /\ UNCHANGED <<parser, model_output, tokens, pos, streamed, tableVars, aggVars, isoVars>>

Next ==
    \/ ExtractReasoningStreaming
    \/ ExtractReasoning
    \/ ExtractToolCallsStreaming
    \/ ExtractToolCalls

Spec == Init /\ [][Next]_vars

(***************************************************************************)
(* TableSpec: the tool-call list of one extract_tool_calls call, one       *)
(* tool-call delta at a time (lines 225-240), for any deltas the filter    *)
(* may emit.  created[p] is the index of the delta whose id made record p  *)
(* (the list does not keep it); applied is the deltas handled so far.      *)
(***************************************************************************)
Deltas ==
    {ToolCallDelta(id, index, name, raw) :
        id \in {"", "c1", "c2"}, index \in 0..MaxIndex,
        name \in {"", "f", "g"}, raw \in {<<>>, <<120>>}}

ParserIdle ==
    /\ parser = "tool" /\ tokens = <<>> /\ model_output = <<>>
    /\ melody = PyFilter(cmd3) /\ pos = 0
    /\ streamed = [content |-> None, reasoning_content |-> None, tool_calls |-> <<>>]
    /\ call = NoCall

\* line 207
TableInit ==
    /\ tool_calls = <<>> /\ created = <<>> /\ applied = <<>>
    /\ status = "running" /\ result = NoMessage
    /\ ParserIdle /\ AggIdle /\ IsoIdle

\* lines 225-240 for one delta; an IndexError ends the call
Apply ==
    /\ status = "running"
    /\ Len(applied) < MaxFrags
    /\ \E d \in Deltas :
         LET r == apply_delta(tool_calls, d)
         IN  /\ tool_calls' = r.tool_calls
             /\ created' = IF Len(r.tool_calls) > Len(tool_calls)
                           THEN Append(created, d.index) ELSE created
             /\ applied' = Append(applied, d)
             /\ status' = IF r.raised THEN "IndexError" ELSE "running"
    /\ UNCHANGED <<result, parserVars, aggVars, isoVars>>

\* lines 244-248
Finalize ==
    /\ status = "running"
    /\ status' = "returned"
    /\ result' = ExtractedToolCallInformation(tool_calls, None)
    /\ UNCHANGED <<tool_calls, created, applied, parserVars, aggVars, isoVars>>

TableNext == Apply \/ Finalize

TableSpec == TableInit /\ [][TableNext]_vars

(***************************************************************************)
(* AggSpec: the two streaming folds on any list of filter outputs.         *)
(***************************************************************************)
Outputs ==
    {[text |-> t, is_reasoning |-> r, tool_call_delta |-> d] :
        t \in {None, Some(<<>>), Some(<<97>>)}, r \in BOOLEAN,
        d \in {NoDelta, ToolCallDelta("c1", 0, "f", <<>>),
               ToolCallDelta("", 0, "", <<120>>)}}

AggInit ==
    /\ burst \in UNION {[1..n -> Outputs] : n \in 0..MaxBurst}
    /\ delta = [op |-> "none", ret |-> NoMessage]
    /\ TableIdle /\ ParserIdle /\ IsoIdle

\* lines 50-86 on out = burst
Aggregate ==
    /\ delta' = [op |-> "extract_reasoning_streaming", ret |-> aggregate(burst)]
    /\ UNCHANGED <<burst, parserVars, tableVars, isoVars>>

\* lines 185-200 on out = burst
AggregateToolCalls ==
    /\ delta' = [op |-> "extract_tool_calls_streaming",
                 ret |-> aggregate_tool_calls(burst)]
    /\ UNCHANGED <<burst, parserVars, tableVars, isoVars>>

AggNext == Aggregate \/ AggregateToolCalls

AggSpec == AggInit /\ [][AggNext]_vars

(***************************************************************************)
(* FilterSpec: one PyFilter object given successive write_decoded calls,   *)
(* as in tests/test_filter.py.  model_output is all the text written so    *)
(* far, pos the number of calls made, call the last call.  The options of  *)
(* the test recognise the markers of cmd3.                                 *)
(***************************************************************************)
MaxWrites == 3      \* write_decoded calls on one filter

FilterChars == {START_THINKING, END_THINKING, START_RESPONSE, START_ACTION, 97}
FilterTexts == {<<c>> : c \in FilterChars} \cup {<<c, d>> : c, d \in FilterChars}

\* test_filter.py line 5
FilterInit ==
    /\ parser = "filter" /\ tokens = <<>> /\ model_output = <<>>
    /\ melody = PyFilter(cmd3) /\ pos = 0
    /\ streamed = [content |-> None, reasoning_content |-> None, tool_calls |-> <<>>]
    /\ call = NoCall
    /\ TableIdle /\ AggIdle /\ IsoIdle

\* fo = f.write_decoded(text), test_filter.py lines 6, 10, 14
WriteDecoded ==
    /\ parser = "filter"
    /\ pos < MaxWrites
    /\ \E text \in FilterTexts :
         LET w == write_decoded(melody, text)
         IN  /\ melody' = w.filter
             /\ model_output' = model_output \o text
             /\ pos' = pos + 1
             /\ call' = [op |-> "write_decoded", written |-> <<text>>,
                         runs |-> <<>>, token_buf |-> <<>>, out |-> w.out, ret |-> NoMessage]
    /\ UNCHANGED <<parser, tokens, streamed, tableVars, aggVars, isoVars>>

FilterNext == WriteDecoded

FilterSpec == FilterInit /\ [][FilterNext]_vars

(***************************************************************************)
(* IsoSpec: two parser objects, one per stream, with their calls           *)
(* interleaved.  heap is the PyFilter objects alive; a parser holds its    *)
(* filter by reference (self.melody is a position of heap).  For stream i, *)
(* streams[i].hist is the calls made on it and streams[i].rets what they   *)
(* returned, in order.                                                     *)
(***************************************************************************)
MaxCalls == 3       \* calls made on the two parsers together

Classes == {"reasoning", "tool"}

\* (a constructor that hands every parser the first filter made)
new_parser_shared(h, class) ==
    IF h = <<>>
    THEN [heap |-> <<PyFilter(cmd3)>>, self |-> [parser |-> class, melody |-> 1]]
    ELSE [heap |-> h, self |-> [parser |-> class, melody |-> 1]]

\* __init__, lines 34-36 and 163-165: self.melody = PyFilter(PyFilterOptions().cmd3())
new_parser(h, class) ==
    [heap |-> Append(h, PyFilter(cmd3)),
     self |-> [parser |-> class, melody |-> Len(h) + 1]]

\* an encoding of a text with one token per character
encode_chars(text) == [i \in DOMAIN text |-> utf8(text[i])]

\* one call c = [op, text] on a parser of the given class whose self.melody
\* is f: the filter afterwards and what the call returns
parser_call(class, f, c) ==
    IF c.op = "streaming"
    THEN LET w == write_decoded(f, c.text)
         IN  [filter |-> w.filter,
              ret |-> IF class = "reasoning" THEN aggregate(w.out)
                      ELSE aggregate_tool_calls(w.out)]
    ELSE IF class = "reasoning"
    THEN LET r == extract_reasoning_call(f, encode_chars(c.text))
         IN  [filter |-> r.self_melody,
              ret |-> [kind |-> "tuple",
                       reasoning_content |-> r.s.reasoning_content,
                       content |-> r.s.content]]
    ELSE LET s == extract_tool_calls(f, encode_chars(c.text))
         IN  [filter |-> s.melody,
              ret |-> IF s.raised
                      THEN [kind |-> "IndexError", tool_calls |-> s.tool_calls]
                      ELSE ExtractedToolCallInformation(s.tool_calls, s.content)]

IsoTexts == {<<START_THINKING>>, <<START_ACTION>>, <<97>>, <<49>>}
IsoCalls == {[op |-> o, text |-> t] : o \in {"streaming", "extract"}, t \in IsoTexts}

IsoInit ==
    /\ \E c1, c2 \in Classes :
         LET p1 == new_parser(<<>>, c1)
             p2 == new_parser(p1.heap, c2)
         IN  /\ heap = p2.heap
             /\ streams = <<[self |-> p1.self, hist |-> <<>>, rets |-> <<>>],
                            [self |-> p2.self, hist |-> <<>>, rets |-> <<>>]>>
    /\ ParserIdle /\ TableIdle /\ AggIdle

\* one call on the parser of stream i
IsoCall(i) ==
    /\ Len(streams[1].hist) + Len(streams[2].hist) < MaxCalls
    /\ \E c \in IsoCalls :
         LET self == streams[i].self
             r == parser_call(self.parser, heap[self.melody], c)
         IN  /\ heap' = [heap EXCEPT ![self.melody] = r.filter]
             /\ streams' = [streams EXCEPT ![i].hist = Append(@, c),
                                           ![i].rets = Append(@, r.ret)]
    /\ UNCHANGED <<parserVars, tableVars, aggVars>>

IsoNext == IsoCall(1) \/ IsoCall(2)

IsoSpec == IsoInit /\ [][IsoNext]_vars

(***************************************************************************)
(* Properties.                                                             *)
(***************************************************************************)
Extractions == {"extract_reasoning", "extract_tool_calls"}
Streamings  == {"extract_reasoning_streaming", "extract_tool_calls_streaming"}

\* an extraction call that ran to its return statement
Extracted == call.op \in Extractions /\ call.ret.kind # "IndexError"

\* C1: boundary safety.  When an extraction has fed the tokens of a text
\* one at a time through the token buffer, the texts it released, joined,
\* are the original text, and a released text holds U+FFFD only if the
\* original text does.
C1_BoundarySafety ==
    Extracted =>
        /\ Concat(call.written) = model_output
        /\ \A i \in DOMAIN call.written :
              REPLACEMENT_CHAR \in Range(call.written[i])
                  => REPLACEMENT_CHAR \in Range(model_output)

Text(x) == IF x.some THEN x.v ELSE <<>>

\* C4: delta/extraction equivalence.  Once the streaming calls have been
\* given the whole output, in whatever chunks, and returned no tool-call
\* delta, the concatenation of the content (reasoning) fields they returned
\* is the content (reasoning) extract_reasoning returns for the same output.
\* Stated for the outputs that hold no action marker, on which the filter
\* of the streaming calls and the filter of extract_reasoning recognise the
\* same markers.
C4_DeltaExtractionEquivalence ==
    (/\ call.op = "extract_reasoning"
     /\ pos = Len(model_output)
     /\ streamed.tool_calls = <<>>
     /\ Range(model_output) \cap {START_ACTION, END_ACTION} = {})
        => /\ Text(streamed.content) = Text(call.ret.content)
           /\ Text(streamed.reasoning_content) = Text(call.ret.reasoning_content)

\* The delta handled by the step just taken, when the step is an Apply.
Applying == Len(applied') = Len(applied) + 1
Last(q) == q[Len(q)]

\* the positions of the records made for tool-call index n
RecordsOf(n) == {p \in DOMAIN created : created[p] = n}

\* the raw_param_delta of the deltas of index n, joined in arrival order
RECURSIVE ArgumentsOf(_, _)
ArgumentsOf(ds, n) ==
    IF ds = <<>> THEN <<>>
    ELSE (IF Head(ds).index = n THEN Head(ds).raw_param_delta ELSE <<>>)
         \o ArgumentsOf(Tail(ds), n)

\* for each index, its first delta bears an id and no later one does
IdFirst(ds) ==
    \A i \in DOMAIN ds :
        (ds[i].id # "") <=> (\A j \in 1..(i - 1) : ds[j].index # ds[i].index)

\* C3: tool-call reconstruction.  For deltas in which each index has its
\* id-bearing delta first (indices sparse or not starting at 0 included)
\* the call does not fail, and it returns one record per distinct index
\* whose arguments is the concatenation of that index's raw_param_delta.
C3_Reconstruction ==
    IdFirst(applied) =>
        /\ status # "IndexError"
        /\ status = "returned" =>
              /\ Len(result.tool_calls) = Cardinality({applied[i].index : i \in DOMAIN applied})
              /\ \A i \in DOMAIN applied :
                    \E p \in RecordsOf(applied[i].index) :
                        result.tool_calls[p].function.arguments
                            = ArgumentsOf(applied, applied[i].index)

\* C5: OrphanFragment.  A delta with an empty id whose index no id-bearing
\* delta has opened fails, and changes no record.
C5_OrphanFragment ==
    [][(/\ Applying
        /\ Last(applied').id = ""
        /\ RecordsOf(Last(applied').index) = {})
          => (status' = "IndexError" /\ tool_calls' = tool_calls)]_vars

\* C6: IndexConflict.  A delta with a non-empty id for an index that has a
\* record with another id fails; no record is changed and none is added.
C6_IndexConflict ==
    [][(/\ Applying
        /\ Last(applied').id # ""
        /\ \E p \in RecordsOf(Last(applied').index) :
              tool_calls[p].id # Last(applied').id)
          => (status' = "IndexError" /\ tool_calls' = tool_calls)]_vars

\* C7: at most one record per index, and the record made for index n is
\* the one tool_calls[n] reads.  Stated for the lists the call goes on with
\* (an IndexError abandons the list).
C7_OneRecordPerIndex ==
    status # "IndexError" =>
        \A p \in DOMAIN tool_calls :
            /\ created[p] = p - 1
            /\ RecordsOf(created[p]) = {p}

\* C8: a successful apply changes only records made for the delta's own
\* index, and changes such a record only by appending the delta's
\* raw_param_delta to its arguments and, when the delta's name is non-empty,
\* setting its name; the records made for other indices stay as they were.
C8_OwnIndexOnly ==
    [][(Applying /\ status' = "running") =>
          \A p \in DOMAIN tool_calls :
              tool_calls'[p] # tool_calls[p] =>
                  /\ created[p] = Last(applied').index
                  /\ tool_calls'[p].function.arguments =
                         tool_calls[p].function.arguments
                             \o Last(applied').raw_param_delta
                  /\ tool_calls'[p].function.name =
                         (IF Last(applied').name # ""
                          THEN Last(applied').name
                          ELSE tool_calls[p].function.name)
                  /\ tool_calls'[p].id = tool_calls[p].id]_vars

\* C9: the records come back in ascending order of index, and tools_called
\* is true exactly when there is a record.
C9_FinalizeSorted ==
    status = "returned" =>
        /\ \A p, q \in DOMAIN result.tool_calls : p < q => created[p] <= created[q]
        /\ result.tools_called = (Len(result.tool_calls) > 0)

HasText(out)  == \E i \in DOMAIN out : out[i].text.some
HasDelta(out) == \E i \in DOMAIN out : out[i].tool_call_delta.present

\* C10: no-op suppression.  extract_reasoning_streaming returns None exactly
\* when no output of the burst carries text or a tool-call delta; otherwise
\* it returns one DeltaMessage, which has content, reasoning_content or
\* tool calls.
C10_NoOpSuppression ==
    delta.op = "extract_reasoning_streaming" =>
        /\ (delta.ret.kind = "None") <=> (~HasText(burst) /\ ~HasDelta(burst))
        /\ delta.ret.kind \in {"None", "DeltaMessage"}
        /\ delta.ret.kind = "DeltaMessage" =>
              \/ delta.ret.content.some
              \/ delta.ret.reasoning_content.some
              \/ Len(delta.ret.tool_calls) > 0

\* C10's cases: a burst of outputs that carry nothing returns None, and a
\* burst whose only output is an empty text returns a DeltaMessage.
C10_Witness ==
    /\ delta.op = "extract_reasoning_streaming"
    /\ \/ (Len(burst) > 0 /\ delta.ret.kind = "None")
       \/ (burst = <<TextOutput(<<>>, FALSE)>> /\ delta.ret.kind = "DeltaMessage")

\* the texts of the outputs of one channel, joined in order
RECURSIVE ChannelText(_, _)
ChannelText(out, is_reasoning) ==
    IF out = <<>> THEN <<>>
    ELSE (IF Head(out).text.some /\ Head(out).is_reasoning = is_reasoning
          THEN Head(out).text.v ELSE <<>>)
         \o ChannelText(Tail(out), is_reasoning)

HasChannel(out, is_reasoning) ==
    \E i \in DOMAIN out : out[i].text.some /\ out[i].is_reasoning = is_reasoning

CarriesDelta(o) == o.tool_call_delta.present

\* C11: what extract_reasoning_streaming returns for one burst.  content is
\* present exactly when an output of the burst carries content text ("" when
\* all such texts are empty) and is those texts joined in order; likewise
\* reasoning_content; the tool calls are the burst's tool-call deltas, one
\* entry each, in order, field for field, deltas of one index not merged.
C11_AggregateFields ==
    delta.op = "extract_reasoning_streaming" =>
        LET ret == delta.ret
            fr  == SelectSeq(burst, CarriesDelta)
        IN  /\ ret.content.some <=> HasChannel(burst, FALSE)
            /\ ret.content.some => ret.content.v = ChannelText(burst, FALSE)
            /\ ret.reasoning_content.some <=> HasChannel(burst, TRUE)
            /\ ret.reasoning_content.some =>
                  ret.reasoning_content.v = ChannelText(burst, TRUE)
            /\ Len(ret.tool_calls) = Len(fr)
            /\ \A p \in DOMAIN fr :
                  /\ ret.tool_calls[p].id = fr[p].tool_call_delta.id
                  /\ ret.tool_calls[p].index = fr[p].tool_call_delta.index
                  /\ ret.tool_calls[p].type = "function"
                  /\ ret.tool_calls[p].function.name = fr[p].tool_call_delta.name
                  /\ ret.tool_calls[p].function.arguments =
                         fr[p].tool_call_delta.raw_param_delta

\* C11's case: a burst of two outputs, each with content text and a
\* tool-call delta of index 0, returned as the joined text and two entries.
C11_Witness ==
    /\ delta.op = "extract_reasoning_streaming"
    /\ Len(burst) = 2
    /\ \A i \in 1..2 : /\ burst[i].text = Some(<<97>>) /\ ~burst[i].is_reasoning
                       /\ burst[i].tool_call_delta.present
                       /\ burst[i].tool_call_delta.index = 0
    /\ delta.ret.content = Some(<<97, 97>>)
    /\ Len(delta.ret.tool_calls) = 2

Markers == {START_THINKING, END_THINKING, START_RESPONSE, START_ACTION, END_ACTION}

\* the marker that governs position i of a text: the last one before i (0: none)
Governing(text, i) ==
    LET ms == {j \in 1..(i - 1) : text[j] \in Markers}
    IN  IF ms = {} THEN 0 ELSE text[CHOOSE j \in ms : \A k \in ms : k <= j]

\* the characters of text after position from that are no markers and whose
\* governing marker is in by, in order
RECURSIVE Governed(_, _, _)
Governed(text, from, by) ==
    IF from >= Len(text) THEN <<>>
    ELSE (IF text[from + 1] \notin Markers /\ Governing(text, from + 1) \in by
          THEN <<text[from + 1]>> ELSE <<>>)
         \o Governed(text, from + 1, by)

\* C12: the filter's region persists from one write_decoded call to the
\* next.  Of the text of a call, the characters whose last marker in all the
\* text written so far (this call or an earlier one) is START_THINKING are
\* what the call emits as reasoning text; those after START_RESPONSE, after
\* END_THINKING or before any marker are what it emits as content text; no
\* emitted text holds a marker.  In the three-call scenario of the test the
\* calls emit reasoning, reasoning and content text.
C12_CursorPersists ==
    call.op = "write_decoded" =>
        LET text == call.written[1]
            from == Len(model_output) - Len(text)
        IN  /\ ChannelText(call.out, TRUE) =
                  Governed(model_output, from, {START_THINKING})
            /\ ChannelText(call.out, FALSE) =
                  Governed(model_output, from, {0, END_THINKING, START_RESPONSE})
            /\ \A i \in DOMAIN call.out :
                  call.out[i].text.some => Range(call.out[i].text.v) \cap Markers = {}
            /\ (model_output = <<START_THINKING, 97>> /\ pos = 1)
                  => call.out = <<TextOutput(<<97>>, TRUE)>>
            /\ (model_output = <<START_THINKING, 97, 97, END_THINKING>> /\ pos = 2)
                  => call.out = <<TextOutput(<<97>>, TRUE)>>
            /\ (/\ model_output = <<START_THINKING, 97, 97, END_THINKING,
                                    START_RESPONSE, 97>>
                /\ pos = 3 /\ text = <<START_RESPONSE, 97>>)
                  => call.out = <<TextOutput(<<97>>, FALSE)>>

\* C12's case: the third call of the scenario, and a call whose text holds
\* no marker emitted as reasoning text.
C12_Witness ==
    /\ call.op = "write_decoded"
    /\ \/ /\ model_output = <<START_THINKING, 97, 97, END_THINKING, START_RESPONSE, 97>>
          /\ pos = 3 /\ call.written = << <<START_RESPONSE, 97>> >>
          /\ call.out = <<TextOutput(<<97>>, FALSE)>>
       \/ /\ model_output = <<START_THINKING, 97>>
          /\ pos = 2 /\ call.written = << <<97>> >>
          /\ call.out = <<TextOutput(<<97>>, TRUE)>>

\* the calls hist made on a parser that serves no other stream: from filter
\* f on, the filter at the end and the returns in order
RECURSIVE Alone(_, _, _, _)
Alone(class, f, hist, rets) ==
    IF hist = <<>> THEN [filter |-> f, rets |-> rets]
    ELSE LET r == parser_call(class, f, Head(hist))
         IN  Alone(class, r.filter, Tail(hist), Append(rets, r.ret))

\* C13: stream isolation.  However the calls on two parsers are interleaved,
\* what the calls on one parser returned, and the state its filter is in,
\* are what the same calls return and leave on a parser used alone.
C13_StreamIsolation ==
    \A i \in DOMAIN streams :
        LET self  == streams[i].self
            alone == Alone(self.parser, PyFilter(cmd3), streams[i].hist, <<>>)
        IN  /\ streams[i].rets = alone.rets
            /\ heap[self.melody] = alone.filter

\* C13's case: both streams have been served, the second one after the
\* first one's filter had left the content region, and the two filters are
\* in different regions.
C13_Witness ==
    /\ Len(streams) = 2
    /\ Len(streams[1].hist) > 0 /\ Len(streams[2].hist) > 0
    /\ heap[streams[1].self.melody].mode = "reasoning"
    /\ heap[streams[2].self.melody].mode = "content"
    /\ streams[2].hist[1].op = "streaming"
    /\ streams[2].rets[1].kind = "DeltaMessage"

\* C14: the tool-call pass of extract_tool_calls is independent.  Whatever
\* calls were made on the parser before (streaming calls, or an earlier
\* extract_tool_calls on the same output), the call returns what it returns
\* on a parser fresh from its constructor: its result is a function of the
\* tokens alone.
C14_ToolPassIndependent ==
    call.op = "extract_tool_calls" =>
        LET s == extract_tool_calls(PyFilter(cmd3), tokens)
        IN  call.ret = IF s.raised
                       THEN [kind |-> "IndexError", tool_calls |-> s.tool_calls]
                       ELSE ExtractedToolCallInformation(s.tool_calls, s.content)

\* C15: extract_reasoning works on a filter of its own.  The call leaves the
\* parser's long-lived filter and what the streaming calls have consumed as
\* they were, so the streaming calls after it return what they would have
\* returned without it; and whatever the streaming calls did before, it
\* returns what the extraction loop returns from a new filter without the
\* action markers and an empty token buffer.
C15_ExtractionFrame ==
    [][ExtractReasoning =>
          /\ melody' = melody /\ pos' = pos /\ streamed' = streamed
          /\ LET s == extract_reasoning_loop(tokens, 1,
                          [melody |-> PyFilter([special |->
                               {START_THINKING, END_THINKING, START_RESPONSE}]),
                           token_buf |-> <<>>, reasoning_content |-> None,
                           content |-> None, written |-> <<>>, runs |-> <<>>])
             IN  /\ call'.ret.reasoning_content = s.reasoning_content
                 /\ call'.ret.content = s.content]_vars

\* C15's case: extract_reasoning was called after streaming calls had left
\* the parser's filter in the reasoning region, and returned content text.
C15_Witness ==
    /\ call.op = "extract_reasoning"
    /\ pos > 0 /\ pos < Len(model_output)
    /\ melody.mode = "reasoning"
    /\ call.ret.content.some /\ Len(call.ret.content.v) > 0

\* C16: no token is left behind.  When an extraction has gone through all
\* the tokens of an output, its token buffer is empty and every token was
\* released in exactly one text, in input order, also when the text decoded
\* last ends with U+FFFD.
C16_AllTokensReleased ==
    Extracted =>
        /\ call.token_buf = <<>>
        /\ Concat(call.runs) = tokens

\* C17: the token buffer, push by push.  The token runs of the released
\* texts, followed by the tokens still pending, are the tokens pushed, in
\* order and without gap or overlap; each released text is the whole
\* decoding of its run and does not end with U+FFFD; while a run was
\* growing, and while the pending tokens were, the decoded text ended with
\* U+FFFD and nothing was released.
C17_PushInvariant ==
    Extracted =>
        /\ Concat(call.runs) \o call.token_buf = tokens
        /\ Len(call.written) = Len(call.runs)
        /\ \A i \in DOMAIN call.runs :
              /\ call.written[i] = decode(call.runs[i])
              /\ ~endswith(call.written[i], REPLACEMENT_CHAR)
              /\ \A k \in 1..(Len(call.runs[i]) - 1) :
                    endswith(decode(SubSeq(call.runs[i], 1, k)), REPLACEMENT_CHAR)
        /\ \A k \in 1..Len(call.token_buf) :
              endswith(decode(SubSeq(call.token_buf, 1, k)), REPLACEMENT_CHAR)

\* C17's case: an extraction released a text decoded from a run of two
\* tokens, and ended with a token pending.
C17_Witness ==
    /\ Extracted
    /\ \E i \in DOMAIN call.runs : Len(call.runs[i]) = 2
    /\ Len(call.token_buf) = 1

\* the outputs of the filter f for the texts, one write_decoded call each,
\* in arrival order
RECURSIVE Emitted(_, _)
Emitted(f, texts) ==
    IF texts = <<>> THEN <<>>
    ELSE LET w == write_decoded(f, Head(texts))
         IN  w.out \o Emitted(w.filter, Tail(texts))

\* C18: what extract_reasoning returns.  Over the outputs the filter emitted
\* for all the released texts, in arrival order: reasoning_content is the
\* texts of the reasoning outputs joined, content the texts of the content
\* outputs joined, and a field is None exactly when no output of its
\* channel was emitted; tool-call deltas add nothing.
C18_ExtractionFields ==
    call.op = "extract_reasoning" =>
        LET out == Emitted(PyFilter([special |->
                               {START_THINKING, END_THINKING, START_RESPONSE}]),
                           call.written)
            ret == call.ret
        IN  /\ ret.reasoning_content.some <=> HasChannel(out, TRUE)
            /\ ret.reasoning_content.some =>
                  ret.reasoning_content.v = ChannelText(out, TRUE)
            /\ ret.content.some <=> HasChannel(out, FALSE)
            /\ ret.content.some => ret.content.v = ChannelText(out, FALSE)

\* C18's case: reasoning text from two releases joined in order, with no
\* content output at all; or both channels from one output.
C18_Witness ==
    /\ call.op = "extract_reasoning"
    /\ Len(call.written) = 3
    /\ \/ /\ call.ret.reasoning_content = Some(<<97, 233>>)
          /\ call.ret.content = None
       \/ /\ call.ret.content = Some(<<233>>)
          /\ call.ret.reasoning_content = Some(<<97>>)

\* C19: a failing apply changes nothing.  When handling a delta fails (an
\* orphan delta, an index in conflict, an index out of range), the list of
\* records is as it was before the delta: no record added, no name or
\* arguments changed.
C19_FailedApplyAtomic ==
    [][(Applying /\ status' = "IndexError") => tool_calls' = tool_calls]_vars

====
